---- MODULE Spec2Model ----
(***************************************************************************)
(* Model of wpspecdev.mie.MieDriver: the truncation order, the order       *)
(* array, the Mie coefficient solver and the input parsing; of the         *)
(* Materials object of tests/test_materials.py; and of the power density   *)
(* methods of wpspecdev.therml.Therml.                                     *)
(*                                                                         *)
(* Numbers.  A complex number is a triple <<a, b, d>> that stands for      *)
(* (a + b*i)/d with d > 0 in lowest terms.  A triple with d = 0 is the     *)
(* non-finite result of a numpy division by zero: each component is        *)
(* +1/-1 for +inf/-inf and 0 for nan.  A size parameter x is given by its  *)
(* cube root <<t, s>>, x = (t/s)^3, so that x**(1/3.) is exact.            *)
(***************************************************************************)
EXTENDS Integers, Sequences, FiniteSets, TLC

\* ------------------------------------------------------------------ bounds
MaxRootNum == 2
MaxRootDen == 2
MaxLib == 2
MaxCount == 3
MaxGrid == 3

\* ------------------------------------------------------- exact arithmetic
Abs(a) == IF a < 0 THEN -a ELSE a

Sgn(a) == IF a < 0 THEN -1 ELSE IF a > 0 THEN 1 ELSE 0

RECURSIVE Gcd(_, _)
Gcd(a, b) == IF b = 0 THEN a ELSE Gcd(b, a % b)

Gcd3(a, b, c) == Gcd(Gcd(Abs(a), Abs(b)), Abs(c))

\* lowest terms, positive denominator
Norm(a, b, d) ==
  LET g == Gcd3(a, b, d)
      s == IF d < 0 THEN -1 ELSE 1
  IN  <<(s * a) \div g, (s * b) \div g, (s * d) \div g>>

IsFinite(z) == z[3] # 0

CZero == <<0, 0, 1>>

COne == <<1, 0, 1>>

CInt(k) == <<k, 0, 1>>

CAdd(y, z) == Norm(y[1] * z[3] + z[1] * y[3], y[2] * z[3] + z[2] * y[3], y[3] * z[3])

CNeg(z) == <<-z[1], -z[2], z[3]>>

CSub(y, z) == CAdd(y, CNeg(z))

CMul(y, z) == Norm(y[1] * z[1] - y[2] * z[2], y[1] * z[2] + y[2] * z[1], y[3] * z[3])

\* numpy's complex true_divide: a zero divisor gives inf/nan components
\* (with a RuntimeWarning), never an exception
CDiv(y, z) ==
  IF z[1] = 0 /\ z[2] = 0
  THEN <<Sgn(y[1]), Sgn(y[2]), 0>>
  ELSE Norm((y[1] * z[1] + y[2] * z[2]) * z[3],
            (y[2] * z[1] - y[1] * z[2]) * z[3],
            (z[1] * z[1] + z[2] * z[2]) * y[3])

\* element-wise operations of numpy arrays of equal length, and scalar * array
VMul(u, v) == [k \in 1..Len(u) |-> CMul(u[k], v[k])]

VSub(u, v) == [k \in 1..Len(u) |-> CSub(u[k], v[k])]

VDiv(u, v) == [k \in 1..Len(u) |-> CDiv(u[k], v[k])]

SMul(c, v) == [k \in 1..Len(v) |-> CMul(c, v[k])]

\* ------------------------------------------------------- size parameters
\* the size parameters of the calls: x = (t/s)^3 > 0 with t/s in lowest terms
XSet == {r \in (1..MaxRootNum) \X (1..MaxRootDen) : Gcd(r[1], r[2]) = 1}

\* the float x
XVal(r) == <<r[1] * r[1] * r[1], 0, r[2] * r[2] * r[2]>>

\* x**(1/3.)
CubeRoot(r) == <<r[1], 0, r[2]>>

\* int(v) of a real v: truncation toward zero
IntOf(v) == Sgn(v[1]) * (Abs(v[1]) \div v[3])

\* y <= z for reals
RLeq(y, z) == y[1] * z[3] <= z[1] * y[3]

\* variant of the grid: the last sample is left out
Linspace_open(start, stop, num) ==
  LET step == IF num > 1 THEN CDiv(CSub(stop, start), CInt(num - 1)) ELSE CZero
  IN  [k \in 1..(num - 1) |-> CAdd(start, CMul(CInt(k - 1), step))]

\* np.linspace(start, stop, num): num samples start + k*step, the last one
\* set to stop; a single sample is start, no sample for num = 0
Linspace(start, stop, num) ==
  LET step == IF num > 1 THEN CDiv(CSub(stop, start), CInt(num - 1)) ELSE CZero
  IN  [k \in 1..num |-> IF num > 1 /\ k = num THEN stop
                        ELSE CAdd(start, CMul(CInt(k - 1), step))]

\* variants of the truncation order: another offset, a sign slip in the
\* offset, a sign slip in the linear term
n_max_plus1(r) == IntOf(CAdd(CAdd(XVal(r), CMul(CInt(4), CubeRoot(r))), CInt(1)))

n_max_minus2(r) == IntOf(CSub(CAdd(XVal(r), CMul(CInt(4), CubeRoot(r))), CInt(2)))

n_max_negx(r) == IntOf(CAdd(CSub(CMul(CInt(4), CubeRoot(r)), XVal(r)), CInt(2)))

\* _n_max = int(x + 4*x**(1/3.)+2)
n_max(r) == IntOf(CAdd(CAdd(XVal(r), CMul(CInt(4), CubeRoot(r))), CInt(2)))

\* variant of the order array: the samples start at 0
n_array_from0(r) ==
  LET l == Linspace(CZero, CInt(n_max(r)), n_max(r))
  IN  [k \in 1..Len(l) |-> IntOf(l[k])]

\* np.copy(np.linspace(1, _n_max, _n_max, dtype=int))
n_array_of(r) ==
  LET l == Linspace(CInt(1), CInt(n_max(r)), n_max(r))
  IN  [k \in 1..Len(l) |-> IntOf(l[k])]

\* ------------------------------------------------------ special functions
\* scipy.special is outside the repository.  spherical_jn and spherical_yn
\* are deterministic functions of (order, argument); the model draws them
\* from a family of tables indexed by lib and keeps the known values at
\* z = 0 (j_0(0) = 1, j_n(0) = 0 for n >= 1).  Real arguments give real
\* values.
LibSet == 1..MaxLib

ZCode(z) == Abs(z[1]) + 2 * Abs(z[2]) + 3 * z[3]

LibReal(k) == <<1, 2, -1, 3, -2>>[(k % 5) + 1]

LibImag(k) == <<1, -1, 0>>[(k % 3) + 1]

spherical_jn(l, n, z) ==
  IF z[1] = 0 /\ z[2] = 0
  THEN IF n = 0 THEN COne ELSE CZero
  ELSE <<LibReal(l + n + ZCode(z)),
         IF z[2] = 0 THEN 0 ELSE LibImag(l * n + ZCode(z)), 1>>

spherical_yn(l, n, z) ==
  <<LibReal(2 * l + 3 * n + ZCode(z) + 1),
    IF z[2] = 0 THEN 0 ELSE LibImag(l + 2 * n + ZCode(z)), 1>>

\* self.ci = 0+1j
ci_value == <<0, 1, 1>>

\* _compute_s_hn: spherical_jn(n, z) + self.ci * spherical_yn(n, z)
compute_s_hn(l, ci, n, z) == CAdd(spherical_jn(l, n, z), CMul(ci, spherical_yn(l, n, z)))

\* _compute_z_jn_prime: z * spherical_jn(n - 1, z) - n * spherical_jn(n, z)
compute_z_jn_prime(l, n, z) ==
  CSub(CMul(z, spherical_jn(l, n - 1, z)), CMul(CInt(n), spherical_jn(l, n, z)))

\* _compute_z_hn_prime: z * _compute_s_hn(n - 1, z) - n * _compute_s_hn(n, z)
compute_z_hn_prime(l, ci, n, z) ==
  CSub(CMul(z, compute_s_hn(l, ci, n - 1, z)), CMul(CInt(n), compute_s_hn(l, ci, n, z)))

\* the functions applied to an array of orders
jn_vec(l, ns, z) == [k \in 1..Len(ns) |-> spherical_jn(l, ns[k], z)]

hn_vec(l, ci, ns, z) == [k \in 1..Len(ns) |-> compute_s_hn(l, ci, ns[k], z)]

z_jn_prime_vec(l, ns, z) == [k \in 1..Len(ns) |-> compute_z_jn_prime(l, ns[k], z)]

z_hn_prime_vec(l, ci, ns, z) == [k \in 1..Len(ns) |-> compute_z_hn_prime(l, ci, ns[k], z)]

\* ---------------------------------------------------------- the driver
\* An object is its attribute dictionary: a function from the names of the
\* attributes assigned so far to their values.
HasAttr(obj, name) == name \in DOMAIN obj

SetAttr(obj, name, val) ==
  [a \in (DOMAIN obj) \cup {name} |-> IF a = name THEN val ELSE obj[a]]

NoAttrs == [a \in {} |-> 0]

\* lengths are in nm; _size_factor_array holds the factor of np.pi
DefaultRadius == CInt(100)

DefaultStart == CInt(400)

\* variant of the default grid: another end of the range
DefaultStop_700 == CInt(700)

DefaultStop == CInt(800)

DefaultCount == 10

SphereIndex == <<3, 0, 2>>

\* parse_input(args): args is a dictionary with keys among "radius" and
\* "wavelength_list" = <<start, stop, count>>.  The result is the object
\* and the exception that ended the call ("none" when it returned):
\* np.linspace raises ValueError for a negative number of samples, after
\* the radius has been assigned.
parse_input(obj, args) ==
  LET o1 == SetAttr(obj, "radius",
                    IF "radius" \in DOMAIN args THEN args["radius"] ELSE DefaultRadius)
      given == "wavelength_list" \in DOMAIN args
      lamlist == IF given THEN args["wavelength_list"]
                 ELSE <<DefaultStart, DefaultStop, CInt(DefaultCount)>>
      num == IF given THEN IntOf(lamlist[3]) ELSE DefaultCount
      wl == Linspace(lamlist[1], lamlist[2], num)
      sri == [k \in 1..num |-> CMul(SphereIndex, COne)]
      med == COne
      rel == [k \in 1..Len(sri) |-> CDiv(sri[k], med)]
      sf == [k \in 1..Len(wl) |-> CDiv(CMul(CInt(2), o1["radius"]), wl[k])]
      o2 == SetAttr(o1, "wavelength_array", wl)
      o3 == SetAttr(o2, "number_of_wavelengths", num)
      o4 == SetAttr(o3, "sphere_refractive_index_array", sri)
      o5 == SetAttr(o4, "_medium_refractive_index", med)
      o6 == SetAttr(o5, "_relative_refractive_index_array", rel)
      o7 == SetAttr(o6, "_relative_permeability", COne)
      o8 == SetAttr(o7, "_size_factor_array", sf)
  IN  IF num < 0 THEN [obj |-> o1, exc |-> "ValueError"]
      ELSE [obj |-> o8, exc |-> "none"]

\* MieDriver(args): parse_input, the print, then self.ci = 0+1j
construct(args) ==
  LET r == parse_input(NoAttrs, args)
  IN  IF r.exc = "none" THEN [obj |-> SetAttr(r.obj, "ci", ci_value), exc |-> "none"]
      ELSE r

\* ------------------------------------------------------------ the solver
\* variant of _compute_n_array: the array is kept once it exists
compute_n_array_cached(obj, r) ==
  IF HasAttr(obj, "_n_array") THEN obj ELSE SetAttr(obj, "_n_array", n_array_of(r))

\* _compute_n_array(x): assigns self._n_array, returns None
compute_n_array(obj, r) == SetAttr(obj, "_n_array", n_array_of(r))

\* the numerators and denominators of _compute_mie_coeffients, from the
\* local arrays L of the call
a_numerator(m, mu, L) ==
  VSub(VMul(SMul(CMul(m, m), L.jnmx), L.xjnxp), VMul(SMul(mu, L.jnx), L.mxjnmxp))

\* variant of the a_n denominator: _xjnxp in the place of _xhnxp
a_denominator_jn(m, mu, L) ==
  VSub(VMul(SMul(CMul(m, m), L.jnmx), L.xjnxp), VMul(SMul(mu, L.hnx), L.mxjnmxp))

a_denominator(m, mu, L) ==
  VSub(VMul(SMul(CMul(m, m), L.jnmx), L.xhnxp), VMul(SMul(mu, L.hnx), L.mxjnmxp))

b_numerator(m, mu, L) ==
  VSub(VMul(SMul(mu, L.jnmx), L.xjnxp), VMul(L.jnx, L.mxjnmxp))

b_denominator(m, mu, L) ==
  VSub(VMul(SMul(mu, L.jnmx), L.xhnxp), VMul(L.hnx, L.mxjnmxp))

c_numerator(m, mu, L) ==
  VSub(VMul(SMul(mu, L.jnx), L.xhnxp), VMul(SMul(mu, L.hnx), L.xjnxp))

c_denominator(m, mu, L) ==
  VSub(VMul(SMul(mu, L.jnmx), L.xhnxp), VMul(L.hnx, L.mxjnmxp))

d_numerator(m, mu, L) ==
  VSub(VMul(SMul(CMul(mu, m), L.jnx), L.xhnxp), VMul(SMul(CMul(mu, m), L.hnx), L.xjnxp))

d_denominator(m, mu, L) ==
  VSub(VMul(SMul(CMul(m, m), L.jnmx), L.xhnxp), VMul(SMul(mu, L.hnx), L.mxjnmxp))

\* the six arrays precomputed from an order array ns
precompute(l, ci, ns, m, r) ==
  [jnx     |-> jn_vec(l, ns, XVal(r)),
   jnmx    |-> jn_vec(l, ns, CMul(m, XVal(r))),
   hnx     |-> hn_vec(l, ci, ns, XVal(r)),
   xjnxp   |-> z_jn_prime_vec(l, ns, XVal(r)),
   mxjnmxp |-> z_jn_prime_vec(l, ns, CMul(m, XVal(r))),
   xhnxp   |-> z_hn_prime_vec(l, ci, ns, XVal(r))]

\* _compute_mie_coeffients(m, mu, x) run without interruption on a driver
\* that has just been constructed: the returned list [_an, _bn, _cn, _dn]
mie_coeffients_fresh(l, m, mu, r) ==
  LET obj == compute_n_array(construct(NoAttrs).obj, r)
      L == precompute(l, obj["ci"], obj["_n_array"], m, r)
  IN  <<VDiv(a_numerator(m, mu, L), a_denominator(m, mu, L)),
        VDiv(b_numerator(m, mu, L), b_denominator(m, mu, L)),
        VDiv(c_numerator(m, mu, L), c_denominator(m, mu, L)),
        VDiv(d_numerator(m, mu, L), d_denominator(m, mu, L))>>

\* ------------------------------------------------------------- the state
Threads == {1, 2}

MSet == {CZero, <<3, 0, 2>>, <<1, 1, 1>>}

MuSet == {COne, <<2, 0, 1>>}

NoLocals == [jnx |-> <<>>, jnmx |-> <<>>, hnx |-> <<>>,
             xjnxp |-> <<>>, mxjnmxp |-> <<>>, xhnxp |-> <<>>]

NoArg == [m |-> COne, mu |-> COne, x |-> <<1, 1>>]

VARIABLES
  self,    \* the attribute dictionary of the MieDriver
  lib,     \* the table of the special functions
  pc,      \* per thread: the next statement of its _compute_mie_coeffients call
  arg,     \* per thread: the arguments (m, mu, x) of its call
  loc,     \* per thread: the local arrays _jnx, _jnmx, _hnx, _xjnxp, _mxjnmxp, _xhnxp
  ret,     \* per thread: the list returned by its last call
  trace,   \* the (x, length of _n_array) of the last two _compute_n_array calls
  exc,     \* the exception that ended the last constructor or parse_input call
  ev,      \* the outcome of the last _compute_s_jn evaluation
  res,     \* the method called last among compute_spectrum and the efficiencies, and what it returned
  cfg,     \* the args of the last constructor or parse_input call
  kept,    \* the list returned by the call before, as its caller holds it
  mat,     \* the attribute dictionary of the Materials object of the tests
  therml,  \* the attribute dictionary of the Therml object
  grid     \* the wavelength array the caller passes to the Therml methods

vars == <<self, lib, pc, arg, loc, ret, trace, exc, ev, res, cfg, kept, mat, therml, grid>>

NoEval == [z |-> COne, kind |-> "float", outcome |-> "none"]

\* no method called yet
NoResult == [op |-> "none", arg |-> NoArg, type |-> "none", value |-> ""]

\* no list returned yet
NoKept == [list |-> <<>>, orig |-> <<>>, alias |-> {}]

\* the caller of a call that has returned holds the list [_an, _bn, _cn, _dn]:
\* its four arrays are the arrays bound to the four attributes
hold(list) == [list |-> list, orig |-> list, alias |-> 1..4]

\* variant of the assignment: the array bound to the attribute is written
\* in place (self._an[:] = ...)
assign_coefficient_inplace(k, i, new) ==
  IF i \in k.alias THEN [k EXCEPT !.list[i] = new] ELSE k

\* self._an = <new array>: the attribute is bound to a new array; the array
\* it was bound to, which an earlier caller may hold, is not written
assign_coefficient(k, i, new) == [k EXCEPT !.alias = @ \ {i}]

\* a driver constructed with args = {}
Init ==
  /\ self = construct(NoAttrs).obj
  /\ lib \in LibSet
  /\ pc = [t \in Threads |-> "idle"]
  /\ arg = [t \in Threads |-> NoArg]
  /\ loc = [t \in Threads |-> NoLocals]
  /\ ret = [t \in Threads |-> <<>>]
  /\ trace = <<>>
  /\ exc = "none"
  /\ ev = NoEval
  /\ res = NoResult
  /\ cfg = NoAttrs
  /\ kept = NoKept
  /\ mat = NoAttrs
  /\ therml = NoAttrs
  /\ grid = <<>>

Push(tr, e) == IF Len(tr) < 2 THEN Append(tr, e) ELSE <<tr[2], e>>

\* a caller enters _compute_mie_coeffients(m, mu, x)
Call(t, m, mu, r) ==
  /\ pc[t] \in {"idle", "done", "ValueError"}
  /\ pc' = [pc EXCEPT ![t] = "n_array"]
  /\ arg' = [arg EXCEPT ![t] = [m |-> m, mu |-> mu, x |-> r]]
  /\ loc' = [loc EXCEPT ![t] = NoLocals]
  /\ ret' = [ret EXCEPT ![t] = <<>>]
  /\ kept' = IF pc[t] = "done" THEN hold(ret[t]) ELSE kept
  /\ UNCHANGED <<self, lib, trace, exc, ev, res, cfg, mat, therml, grid>>

\* line 261: self._compute_n_array(x)
StepNArray(t) ==
  /\ pc[t] = "n_array"
  /\ self' = compute_n_array(self, arg[t].x)
  /\ trace' = Push(trace, <<arg[t].x, Len(self'["_n_array"])>>)
  /\ pc' = [pc EXCEPT ![t] = "jnx"]
  /\ UNCHANGED <<lib, arg, loc, ret, exc, ev, res, cfg, kept, mat, therml, grid>>

\* lines 266-271: each statement reads self._n_array anew
StepJnx(t) ==
  /\ pc[t] = "jnx"
  /\ loc' = [loc EXCEPT ![t].jnx = jn_vec(lib, self["_n_array"], XVal(arg[t].x))]
  /\ pc' = [pc EXCEPT ![t] = "jnmx"]
  /\ UNCHANGED <<self, lib, arg, ret, trace, exc, ev, res, cfg, kept, mat, therml, grid>>

StepJnmx(t) ==
  /\ pc[t] = "jnmx"
  /\ loc' = [loc EXCEPT ![t].jnmx =
               jn_vec(lib, self["_n_array"], CMul(arg[t].m, XVal(arg[t].x)))]
  /\ pc' = [pc EXCEPT ![t] = "hnx"]
  /\ UNCHANGED <<self, lib, arg, ret, trace, exc, ev, res, cfg, kept, mat, therml, grid>>

StepHnx(t) ==
  /\ pc[t] = "hnx"
  /\ loc' = [loc EXCEPT ![t].hnx =
               hn_vec(lib, self["ci"], self["_n_array"], XVal(arg[t].x))]
  /\ pc' = [pc EXCEPT ![t] = "xjnxp"]
  /\ UNCHANGED <<self, lib, arg, ret, trace, exc, ev, res, cfg, kept, mat, therml, grid>>

StepXjnxp(t) ==
  /\ pc[t] = "xjnxp"
  /\ loc' = [loc EXCEPT ![t].xjnxp =
               z_jn_prime_vec(lib, self["_n_array"], XVal(arg[t].x))]
  /\ pc' = [pc EXCEPT ![t] = "mxjnmxp"]
  /\ UNCHANGED <<self, lib, arg, ret, trace, exc, ev, res, cfg, kept, mat, therml, grid>>

StepMxjnmxp(t) ==
  /\ pc[t] = "mxjnmxp"
  /\ loc' = [loc EXCEPT ![t].mxjnmxp =
               z_jn_prime_vec(lib, self["_n_array"], CMul(arg[t].m, XVal(arg[t].x)))]
  /\ pc' = [pc EXCEPT ![t] = "xhnxp"]
  /\ UNCHANGED <<self, lib, arg, ret, trace, exc, ev, res, cfg, kept, mat, therml, grid>>

StepXhnxp(t) ==
  /\ pc[t] = "xhnxp"
  /\ loc' = [loc EXCEPT ![t].xhnxp =
               z_hn_prime_vec(lib, self["ci"], self["_n_array"], XVal(arg[t].x))]
  /\ pc' = [pc EXCEPT ![t] = "an"]
  /\ UNCHANGED <<self, lib, arg, ret, trace, exc, ev, res, cfg, kept, mat, therml, grid>>

\* numpy raises ValueError when arrays of different lengths (none of
\* length 1) meet in an element-wise operation
SameShape(L) ==
  \A f \in DOMAIN L : Len(L[f]) = Len(L.jnx)

\* lines 274-277
StepAn(t) ==
  /\ pc[t] = "an"
  /\ IF SameShape(loc[t])
     THEN /\ self' = SetAttr(self, "_an",
                       VDiv(a_numerator(arg[t].m, arg[t].mu, loc[t]),
                            a_denominator(arg[t].m, arg[t].mu, loc[t])))
          /\ kept' = assign_coefficient(kept, 1, self'["_an"])
          /\ pc' = [pc EXCEPT ![t] = "bn"]
     ELSE /\ self' = self
          /\ kept' = kept
          /\ pc' = [pc EXCEPT ![t] = "ValueError"]
  /\ UNCHANGED <<lib, arg, loc, ret, trace, exc, ev, res, cfg, mat, therml, grid>>

\* lines 280-283
StepBn(t) ==
  /\ pc[t] = "bn"
  /\ self' = SetAttr(self, "_bn",
               VDiv(b_numerator(arg[t].m, arg[t].mu, loc[t]),
                    b_denominator(arg[t].m, arg[t].mu, loc[t])))
  /\ kept' = assign_coefficient(kept, 2, self'["_bn"])
  /\ pc' = [pc EXCEPT ![t] = "cn"]
  /\ UNCHANGED <<lib, arg, loc, ret, trace, exc, ev, res, cfg, mat, therml, grid>>

\* lines 286-289
StepCn(t) ==
  /\ pc[t] = "cn"
  /\ self' = SetAttr(self, "_cn",
               VDiv(c_numerator(arg[t].m, arg[t].mu, loc[t]),
                    c_denominator(arg[t].m, arg[t].mu, loc[t])))
  /\ kept' = assign_coefficient(kept, 3, self'["_cn"])
  /\ pc' = [pc EXCEPT ![t] = "dn"]
  /\ UNCHANGED <<lib, arg, loc, ret, trace, exc, ev, res, cfg, mat, therml, grid>>

\* lines 292-295
StepDn(t) ==
  /\ pc[t] = "dn"
  /\ self' = SetAttr(self, "_dn",
               VDiv(d_numerator(arg[t].m, arg[t].mu, loc[t]),
                    d_denominator(arg[t].m, arg[t].mu, loc[t])))
  /\ kept' = assign_coefficient(kept, 4, self'["_dn"])
  /\ pc' = [pc EXCEPT ![t] = "return"]
  /\ UNCHANGED <<lib, arg, loc, ret, trace, exc, ev, res, cfg, mat, therml, grid>>

\* line 296: return [self._an, self._bn, self._cn, self._dn]
StepReturn(t) ==
  /\ pc[t] = "return"
  /\ ret' = [ret EXCEPT ![t] = <<self["_an"], self["_bn"], self["_cn"], self["_dn"]>>]
  /\ pc' = [pc EXCEPT ![t] = "done"]
  /\ UNCHANGED <<self, lib, arg, loc, trace, exc, ev, res, cfg, kept, mat, therml, grid>>

\* calls of the solver one after another, by one caller
Next ==
  \/ \E m \in MSet, mu \in MuSet, r \in XSet : Call(1, m, mu, r)
  \/ StepNArray(1)
  \/ StepJnx(1)
  \/ StepJnmx(1)
  \/ StepHnx(1)
  \/ StepXjnxp(1)
  \/ StepMxjnmxp(1)
  \/ StepXhnxp(1)
  \/ StepAn(1)
  \/ StepBn(1)
  \/ StepCn(1)
  \/ StepDn(1)
  \/ StepReturn(1)

Spec == Init /\ [][Next]_vars

\* two callers on the same driver, one call each, their statements
\* interleaved: the calls are for two wavelengths of the driver's sphere,
\* so they have different size parameters and the driver's permeability
CallConc(t, m, r) ==
  /\ pc[t] = "idle"
  /\ \A u \in Threads \ {t} : pc[u] # "idle" => arg[u].x # r
  /\ Call(t, m, self["_relative_permeability"], r)

NextConc ==
  \/ \E t \in Threads, m \in MSet, r \in XSet : CallConc(t, m, r)
  \/ \E t \in Threads : StepNArray(t)
  \/ \E t \in Threads : StepJnx(t)
  \/ \E t \in Threads : StepJnmx(t)
  \/ \E t \in Threads : StepHnx(t)
  \/ \E t \in Threads : StepXjnxp(t)
  \/ \E t \in Threads : StepMxjnmxp(t)
  \/ \E t \in Threads : StepXhnxp(t)
  \/ \E t \in Threads : StepAn(t)
  \/ \E t \in Threads : StepBn(t)
  \/ \E t \in Threads : StepCn(t)
  \/ \E t \in Threads : StepDn(t)
  \/ \E t \in Threads : StepReturn(t)

SpecConc == Init /\ [][NextConc]_vars

\* ----------------------------------------------------- input and domains
RadiusSet == {CInt(-50), CZero, CInt(50)}

StartSet == {CZero, CInt(400)}

StopSet == {CInt(400), CInt(800)}

\* the count of a wavelength_list: an integer, or a float such as 2.5
CountSet == {CInt(k) : k \in -1..MaxCount} \cup {<<2 * MaxCount - 1, 0, 2>>}

ListSet == StartSet \X StopSet \X CountSet

\* a sphere index a caller puts in args: parse_input reads no such key
SphereIndexSet == {CInt(2), <<3, 1, 2>>}

ArgSet ==
  {NoAttrs}
  \cup {[sphere_refractive_index |-> n] : n \in SphereIndexSet}
  \cup {[radius |-> rd] : rd \in RadiusSet}
  \cup {[wavelength_list |-> wl] : wl \in ListSet}
  \cup {[radius |-> rd, wavelength_list |-> wl] : rd \in RadiusSet, wl \in ListSet}

\* _compute_s_jn(n, z) = np.sqrt(np.pi / (2 * z)) * jv(n + 0.5, z) for a
\* real z: with a Python float z = 0 the division raises
\* ZeroDivisionError; with a numpy float it gives inf (RuntimeWarning) and
\* inf * jv(ns, 0) = inf * 0 = nan; np.sqrt of a negative real is nan
compute_s_jn(z, kind) ==
  IF z[1] = 0
  THEN IF kind = "float" THEN "ZeroDivisionError" ELSE "nan"
  ELSE IF z[1] < 0 THEN "nan" ELSE "finite"

ZSet == {CInt(-1), CZero, COne, <<1, 0, 2>>}

KindSet == {"float", "numpy.float64"}

\* a driver constructed with any args
InitInput ==
  /\ \E args \in ArgSet :
       /\ self = construct(args).obj
       /\ exc = construct(args).exc
       /\ cfg = args
  /\ lib = 1
  /\ pc = [t \in Threads |-> "idle"]
  /\ arg = [t \in Threads |-> NoArg]
  /\ loc = [t \in Threads |-> NoLocals]
  /\ ret = [t \in Threads |-> <<>>]
  /\ trace = <<>>
  /\ ev = NoEval
  /\ res = NoResult
  /\ kept = NoKept
  /\ mat = NoAttrs
  /\ therml = NoAttrs
  /\ grid = <<>>

\* parse_input(args) called again on a constructed driver
ParseInput(args) ==
  /\ HasAttr(self, "ci")
  /\ self' = parse_input(self, args).obj
  /\ exc' = parse_input(self, args).exc
  /\ cfg' = args
  /\ UNCHANGED <<lib, pc, arg, loc, ret, trace, ev, res, kept, mat, therml, grid>>

\* _compute_s_jn(n, z) called on a constructed driver; the outcome is the
\* same for every order n
EvalSJn(z, kind) ==
  /\ HasAttr(self, "ci")
  /\ ev' = [z |-> z, kind |-> kind, outcome |-> compute_s_jn(z, kind)]
  /\ UNCHANGED <<self, lib, pc, arg, loc, ret, trace, exc, res, cfg, kept, mat, therml, grid>>

NextInput ==
  \/ \E args \in ArgSet : ParseInput(args)
  \/ \E z \in ZSet, kind \in KindSet : EvalSJn(z, kind)

SpecInput == InitInput /\ [][NextInput]_vars

\* ------------------------------------------------- spectrum and efficiencies
\* compute_spectrum(): the body is `pass`; no attribute is assigned and None
\* is returned
compute_spectrum(obj) == [obj |-> obj, type |-> "NoneType", value |-> "None"]

\* _compute_q_scattering(m, mu, x): return 'replace_w_q_scat'
compute_q_scattering(obj, m, mu, r) ==
  [obj |-> obj, type |-> "str", value |-> "replace_w_q_scat"]

\* _compute_q_extinction(m, mu, x): return 'replace_with_q_ext'
compute_q_extinction(obj, m, mu, r) ==
  [obj |-> obj, type |-> "str", value |-> "replace_with_q_ext"]

ComputeSpectrum ==
  /\ HasAttr(self, "ci")
  /\ self' = compute_spectrum(self).obj
  /\ res' = [op |-> "compute_spectrum", arg |-> NoArg,
             type |-> compute_spectrum(self).type,
             value |-> compute_spectrum(self).value]
  /\ UNCHANGED <<lib, pc, arg, loc, ret, trace, exc, ev, cfg, kept, mat, therml, grid>>

ComputeQScattering(m, mu, r) ==
  /\ HasAttr(self, "ci")
  /\ self' = compute_q_scattering(self, m, mu, r).obj
  /\ res' = [op |-> "_compute_q_scattering", arg |-> [m |-> m, mu |-> mu, x |-> r],
             type |-> compute_q_scattering(self, m, mu, r).type,
             value |-> compute_q_scattering(self, m, mu, r).value]
  /\ UNCHANGED <<lib, pc, arg, loc, ret, trace, exc, ev, cfg, kept, mat, therml, grid>>

ComputeQExtinction(m, mu, r) ==
  /\ HasAttr(self, "ci")
  /\ self' = compute_q_extinction(self, m, mu, r).obj
  /\ res' = [op |-> "_compute_q_extinction", arg |-> [m |-> m, mu |-> mu, x |-> r],
             type |-> compute_q_extinction(self, m, mu, r).type,
             value |-> compute_q_extinction(self, m, mu, r).value]
  /\ UNCHANGED <<lib, pc, arg, loc, ret, trace, exc, ev, cfg, kept, mat, therml, grid>>

\* a driver constructed with any args, then the spectrum and efficiency
\* methods called in any order
NextSpectrum ==
  \/ ComputeSpectrum
  \/ \E m \in MSet, mu \in MuSet, r \in XSet : ComputeQScattering(m, mu, r)
  \/ \E m \in MSet, mu \in MuSet, r \in XSet : ComputeQExtinction(m, mu, r)

SpecSpectrum == InitInput /\ [][NextSpectrum]_vars

\* ------------------------------------------------------------- materials
\* The Materials class: wavelengths are in pm (1e-12 m), n and k in units
\* of 1e-7; a refractive index is the pair <<n, k>>. The tabulated points
\* are the ones the tests of the class give.
MaterialSet == {"SiO2", "Ta2O5", "Au", "W"}

Data(X) ==
  CASE X = "SiO2" ->
         <<[test_wavelength |-> 636000, test_n |-> 14569300, test_k |-> 0]>>
    [] X = "Ta2O5" ->
         <<[lower_wavelength |-> 29494, upper_wavelength |-> 1514300,
            test_wavelength |-> 36899, test_n |-> 8616500, test_k |-> 2930000],
           [lower_wavelength |-> 500000, upper_wavelength |-> 1000000000,
            test_wavelength |-> 2590700, test_n |-> 20246000, test_k |-> 75989]>>
    [] X = "Au" ->
         <<[lower_wavelength |-> 200000, upper_wavelength |-> 1000250,
            test_wavelength |-> 500188, test_n |-> 9622084, test_k |-> 18695066],
           [lower_wavelength |-> 300000, upper_wavelength |-> 24930000,
            test_wavelength |-> 5024000, test_n |-> 30310000, test_k |-> 344700000]>>
    [] X = "W" ->
         <<[lower_wavelength |-> 1538460, upper_wavelength |-> 12398000,
            test_wavelength |-> 1362000, test_n |-> 31024000, test_k |-> 43555000],
           [lower_wavelength |-> 667000, upper_wavelength |-> 200000000,
            test_wavelength |-> 22200000, test_n |-> 275991880, test_k |-> 835173670]>>

\* the central wavelengths the tests use
CentralSet == {Data(X)[ds].test_wavelength : ds \in {1, 2}, X \in MaterialSet \ {"SiO2"}}
              \cup {Data("SiO2")[1].test_wavelength}

\* the wavelength array of the test multilayer reaches 1 nm to each side of
\* the central wavelength
HalfWidth == 1000

Vacuum == <<10000000, 0>>

\* _create_test_multilayer(central_wavelength=w): three wavelengths centred
\* at w, three layers, every refractive index 1
create_test_multilayer(obj, w) ==
  LET o1 == SetAttr(obj, "wavelength_array",
                    [i \in 0..2 |-> w + (i - 1) * HalfWidth])
      o2 == SetAttr(o1, "number_of_wavelengths", 3)
      o3 == SetAttr(o2, "number_of_layers", 3)
  IN  SetAttr(o3, "_refractive_index_array", [i \in 0..2 |-> [l \in 0..2 |-> Vacuum]])

\* variant of the choice of the data set: the first one at every wavelength
select_first_data_set(X, longest) == 1

\* the data set a material method reads: the first one unless the
\* wavelength array reaches beyond its upper wavelength
select_data_set(X, longest) ==
  IF Len(Data(X)) = 1 \/ longest <= Data(X)[1].upper_wavelength THEN 1 ELSE 2

\* the tabulated n and k of a data set interpolated at the wavelength w: the
\* tabulated value at a tabulated wavelength, a surrogate varying with w
\* between the tabulated wavelengths
interpolate(X, ds, w) ==
  LET d == Data(X)[ds]
  IN  IF w = d.test_wavelength THEN <<d.test_n, d.test_k>>
      ELSE <<d.test_n + (w - d.test_wavelength) \div 10, d.test_k>>

\* material_X(layer): the column of an inner layer is set to the index of X
\* at every wavelength of the array
material(obj, X, layer) ==
  LET wl == obj["wavelength_array"]
      ds == select_data_set(X, wl[obj["number_of_wavelengths"] - 1])
  IN  IF layer > 0 /\ layer < obj["number_of_layers"] - 1
      THEN SetAttr(obj, "_refractive_index_array",
                   [i \in 0..2 |->
                      [obj["_refractive_index_array"][i]
                         EXCEPT ![layer] = interpolate(X, ds, wl[i])]])
      ELSE obj

CreateTestMultilayer(w) ==
  /\ mat' = create_test_multilayer(mat, w)
  /\ res' = [op |-> "_create_test_multilayer", arg |-> [central_wavelength |-> w],
             type |-> "NoneType", value |-> "None"]
  /\ UNCHANGED <<self, lib, pc, arg, loc, ret, trace, exc, ev, cfg, kept, therml, grid>>

Material(X, layer) ==
  /\ HasAttr(mat, "_refractive_index_array")
  /\ mat' = material(mat, X, layer)
  /\ res' = [op |-> "material", arg |-> [X |-> X, layer |-> layer],
             type |-> "NoneType", value |-> "None"]
  /\ UNCHANGED <<self, lib, pc, arg, loc, ret, trace, exc, ev, cfg, kept, therml, grid>>

NextMaterials ==
  \/ \E w \in CentralSet : CreateTestMultilayer(w)
  \/ \E X \in MaterialSet, layer \in 0..2 : Material(X, layer)

SpecMaterials == Init /\ [][NextMaterials]_vars

\* the orders the statement at position p of _compute_mie_coeffients hands
\* to spherical_jn and spherical_yn when the order array is ns: the array
\* itself in lines 266-268, the array and the array minus 1 inside
\* _compute_z_jn_prime and _compute_z_hn_prime in lines 269-271
orders_requested(p, ns) ==
  IF p \in {"jnx", "jnmx", "hnx"} THEN {ns[k] : k \in 1..Len(ns)}
  ELSE IF p \in {"xjnxp", "mxjnmxp", "xhnxp"}
       THEN {ns[k] : k \in 1..Len(ns)} \cup {ns[k] - 1 : k \in 1..Len(ns)}
       ELSE {}

\* ---------------------------------------------------------------- therml
\* The Therml class.  Wavelengths are in micrometres, temperatures in units
\* of 100 K, angles in units of pi.  A scalar the code multiplies by np.pi
\* is a record [pi |-> k, v |-> r] that stands for r * pi^k.
Q(r) == [pi |-> 0, v |-> r]

TimesPi(q) == [q EXCEPT !.pi = @ + 1]

QDiv(p, q) == [pi |-> p.pi - q.pi, v |-> CDiv(p.v, q.v)]

\* the wavelengths of a grid and the grids a caller passes: strictly
\* increasing, positive, at least one wavelength
WlSet == 1..MaxGrid

IsIncreasing(w) == \A k \in 1..(Len(w) - 1) : w[k] < w[k + 1]

GridSet ==
  {[k \in 1..Len(w) |-> CInt(w[k])] :
     w \in {u \in UNION {[1..n -> WlSet] : n \in 1..MaxGrid} : IsIncreasing(u)}}

\* emissivities of a structure, one per wavelength
EmissivitySet(n) == [1..n -> {CZero, COne}]

\* emissivity gradients: one parameter, one entry per wavelength
GradientSet(n) == {<<c>> : c \in [1..n -> {CZero, COne}]}

\* positions of the bandgap: below, at and above the wavelengths (the
\* default lies between two of them)
BandgapSet == {<<1, 0, 2>>, CInt(2), CInt(MaxGrid + 2)}

ThermlArgSet ==
  {NoAttrs}
  \cup {[k \in {"bandgap wavelength"} |-> b] : b \in BandgapSet}
  \cup {[k \in {"temperature", "solar angle"} |->
            IF k = "temperature" THEN CInt(10) ELSE CInt(60)]}

\* _parse_therml_input(args)
parse_therml_input(obj, args) ==
  LET o1 == SetAttr(obj, "temperature",
                    IF "temperature" \in DOMAIN args THEN args["temperature"] ELSE CInt(3))
      o2 == SetAttr(o1, "lambda_bandgap",
                    IF "bandgap wavelength" \in DOMAIN args THEN args["bandgap wavelength"]
                    ELSE <<1127, 0, 500>>)
      o3 == SetAttr(o2, "atmospheric_temperature",
                    IF "atmospheric temperature" \in DOMAIN args
                    THEN args["atmospheric temperature"] ELSE CInt(3))
  IN  SetAttr(o3, "solar_angle",
              IF "solar angle" \in DOMAIN args THEN CDiv(args["solar angle"], CInt(180))
              ELSE CDiv(CInt(30), CInt(180)))

\* Therml(args): the two compute calls of the constructor are commented out
therml_construct(args) == parse_therml_input(NoAttrs, args)

\* Planck's blackbody spectrum 2hc^2/w^5 / (exp(hc/(w kb T)) - 1) at a
\* positive wavelength and temperature: a positive real; the model takes it
\* from a table indexed by lib
planck(l, w, T) == CInt(1 + ((l + ZCode(w) + T[1]) % 3))

\* np.trapz(y, x): the sum of (x[k+1] - x[k]) * (y[k+1] + y[k]) / 2; 0.0 for
\* fewer than two samples
RECURSIVE trapz_from(_, _, _)
trapz_from(y, x, k) ==
  IF k >= Len(x) THEN CZero
  ELSE CAdd(CDiv(CMul(CSub(x[k + 1], x[k]), CAdd(y[k + 1], y[k])), CInt(2)),
            trapz_from(y, x, k + 1))

trapz(y, x) == trapz_from(y, x, 1)

\* |y| of a real
RAbs(y) == <<Abs(y[1]), 0, y[3]>>

\* np.abs(wavelength_array - lambda_bandgap).argmin(): the first index, from
\* 0, of a wavelength nearest to the bandgap
bg_idx_of(wl, bg) ==
  LET dist(k) == RAbs(CSub(wl[k], bg))
  IN  (CHOOSE k \in 1..Len(wl) :
         /\ \A j \in 1..Len(wl) : RLeq(dist(k), dist(j))
         /\ \A j \in 1..(k - 1) : dist(j) # dist(k)) - 1

\* a[:n] of a numpy array
Slice(a, n) == SubSeq(a, 1, n)

\* thermal_emission * wavelength_array / lambda_bandgap
useful_spectrum(te, wl, bg) == [k \in 1..Len(te) |-> CDiv(CMul(te[k], wl[k]), bg)]

\* _compute_therml_spectrum(wavelength_array, emissivity_array)
compute_therml_spectrum(obj, l, wl, em) ==
  LET bb == [k \in 1..Len(wl) |-> planck(l, wl[k], obj["temperature"])]
      o1 == SetAttr(obj, "blackbody_spectrum", bb)
  IN  [obj |-> SetAttr(o1, "thermal_emission_array", VMul(bb, em)), exc |-> "none"]

\* _compute_therml_spectrum_gradient(wavelength_array, emissivity_gradient_array):
\* the gradient arrays are sequences of components, each a sequence over the
\* wavelengths
compute_therml_spectrum_gradient(obj, l, wl, eg) ==
  LET bb == [k \in 1..Len(wl) |-> planck(l, wl[k], obj["temperature"])]
      o1 == SetAttr(obj, "blackbody_spectrum", bb)
  IN  [obj |-> SetAttr(o1, "thermal_emission_gradient_array",
                       [i \in 1..Len(eg) |-> VMul(bb, eg[i])]),
       exc |-> "none"]

\* _compute_power_density(wavelength_array): the statements in their order;
\* reading an attribute that was never assigned raises AttributeError
compute_power_density(obj, wl) ==
  IF ~HasAttr(obj, "blackbody_spectrum") THEN [obj |-> obj, exc |-> "AttributeError"]
  ELSE
    LET o1 == SetAttr(obj, "blackbody_power_density",
                      Q(trapz(obj["blackbody_spectrum"], wl)))
    IN  IF ~HasAttr(o1, "thermal_emission_array")
        THEN [obj |-> o1, exc |-> "AttributeError"]
        ELSE
          LET o2 == SetAttr(o1, "power_density", Q(trapz(o1["thermal_emission_array"], wl)))
              o3 == SetAttr(o2, "blackbody_power_density",
                            TimesPi(o2["blackbody_power_density"]))
              o4 == SetAttr(o3, "power_density", TimesPi(o3["power_density"]))
              T2 == CMul(o4["temperature"], o4["temperature"])
          IN  [obj |-> SetAttr(o4, "stefan_boltzmann_law", CMul(T2, T2)),
               exc |-> "none"]

\* variant of the sub-bandgap slice: the whole grid
stpv_power_whole(te, wl, bg) == TimesPi(Q(trapz(useful_spectrum(te, wl, bg), wl)))

\* lines 258-272: np.pi * np.trapz(power_density_array[:bg_idx],
\* wavelength_array[:bg_idx])
stpv_power(te, wl, bg) ==
  LET idx == bg_idx_of(wl, bg)
  IN  TimesPi(Q(trapz(Slice(useful_spectrum(te, wl, bg), idx), Slice(wl, idx))))

\* _compute_stpv_power_density(wavelength_array)
compute_stpv_power_density(obj, wl) ==
  IF ~HasAttr(obj, "thermal_emission_array") THEN [obj |-> obj, exc |-> "AttributeError"]
  ELSE [obj |-> SetAttr(obj, "stpv_power_density",
                        stpv_power(obj["thermal_emission_array"], wl, obj["lambda_bandgap"])),
        exc |-> "none"]

\* _compute_stpv_power_density_gradient(wavelength_array): each component
\* is np.pi * np.trapz(stpv_power_density_array_prime, wavelength_array)
compute_stpv_power_density_gradient(obj, wl) ==
  IF ~HasAttr(obj, "thermal_emission_gradient_array")
  THEN [obj |-> obj, exc |-> "AttributeError"]
  ELSE
    LET teg == obj["thermal_emission_gradient_array"]
    IN  [obj |-> SetAttr(obj, "stpv_power_density_gradient",
                         [i \in 1..Len(teg) |->
                            TimesPi(Q(trapz(useful_spectrum(teg[i], wl, obj["lambda_bandgap"]),
                                            wl)))]),
         exc |-> "none"]

\* _compute_stpv_spectral_efficiency(wavelength_array)
compute_stpv_spectral_efficiency(obj, wl) ==
  LET r1 == compute_stpv_power_density(obj, wl)
      r2 == compute_power_density(r1.obj, wl)
  IN  IF r1.exc # "none" THEN r1
      ELSE IF r2.exc # "none" THEN r2
      ELSE [obj |-> SetAttr(r2.obj, "stpv_spectral_efficiency",
                            QDiv(r2.obj["stpv_power_density"], r2.obj["power_density"])),
            exc |-> "none"]

\* _rho_prime of _compute_stpv_spectral_efficiency_gradient, lines 376-388
rho_prime(tegi, wl, bg) ==
  LET idx == bg_idx_of(wl, bg)
  IN  TimesPi(Q(trapz(useful_spectrum(Slice(tegi, idx), Slice(wl, idx), bg),
                      Slice(wl, idx))))

\* a Therml constructed with any args, and the grid its caller works with
InitTherml ==
  /\ \E args \in ThermlArgSet : therml = therml_construct(args) /\ cfg = args
  /\ grid \in GridSet
  /\ self = construct(NoAttrs).obj
  /\ lib = 1
  /\ pc = [t \in Threads |-> "idle"]
  /\ arg = [t \in Threads |-> NoArg]
  /\ loc = [t \in Threads |-> NoLocals]
  /\ ret = [t \in Threads |-> <<>>]
  /\ trace = <<>>
  /\ exc = "none"
  /\ ev = NoEval
  /\ res = NoResult
  /\ kept = NoKept
  /\ mat = NoAttrs

\* a Therml method was called and ended as r says
ThermlCall(r) ==
  /\ therml' = r.obj
  /\ exc' = r.exc
  /\ UNCHANGED <<self, lib, pc, arg, loc, ret, trace, ev, res, cfg, kept, mat, grid>>

ComputeThermlSpectrum(em) ==
  /\ ~HasAttr(therml, "thermal_emission_array")
  /\ ThermlCall(compute_therml_spectrum(therml, lib, grid, em))

ComputeThermlSpectrumGradient(eg) ==
  /\ ~HasAttr(therml, "thermal_emission_gradient_array")
  /\ ThermlCall(compute_therml_spectrum_gradient(therml, lib, grid, eg))

ComputePowerDensity ==
  ThermlCall(compute_power_density(therml, grid))

ComputeStpvPowerDensity ==
  ThermlCall(compute_stpv_power_density(therml, grid))

ComputeStpvPowerDensityGradient ==
  ThermlCall(compute_stpv_power_density_gradient(therml, grid))

ComputeStpvSpectralEfficiency ==
  ThermlCall(compute_stpv_spectral_efficiency(therml, grid))

NextTherml ==
  \/ \E em \in EmissivitySet(Len(grid)) : ComputeThermlSpectrum(em)
  \/ \E eg \in GradientSet(Len(grid)) : ComputeThermlSpectrumGradient(eg)
  \/ ComputePowerDensity
  \/ ComputeStpvPowerDensity
  \/ ComputeStpvPowerDensityGradient
  \/ ComputeStpvSpectralEfficiency

SpecTherml == InitTherml /\ [][NextTherml]_vars

\* ================================================================ claims
\* n is floor(x + 4*x^(1/3) + 2) for x = (t/s)^3:
\* n <= (t^3 + 4*t*s^2 + 2*s^3)/s^3 < n + 1
IsFloorOrder(n, r) ==
  LET t == r[1]
      s == r[2]
      w == t * t * t + 4 * t * s * s + 2 * s * s * s
  IN  n * s * s * s <= w /\ w < (n + 1) * s * s * s

\* the size parameter of the last _compute_n_array call
LastX == trace[Len(trace)][1]

\* C1: two interleaved calls with different size parameters each return
\* the four sequences computed from the order array of their own x, of
\* length N_max of their own x; no call fails or sees the other's arrays.
CE_C1_ConcurrentCallsIsolated ==
  \A t \in Threads :
    /\ pc[t] # "ValueError"
    /\ pc[t] = "done" =>
         /\ \A i \in 1..4 : IsFloorOrder(Len(ret[t][i]), arg[t].x)
         /\ ret[t] = mie_coeffients_fresh(lib, arg[t].m, arg[t].mu, arg[t].x)

\* C2: after any sequence of earlier calls, a call with (m, mu, x) returns
\* the same four sequences as the same call on a new driver.
Thm_C2_ResultDependsOnArguments ==
  pc[1] = "done" => ret[1] = mie_coeffients_fresh(lib, arg[1].m, arg[1].mu, arg[1].x)

\* a call has returned after an earlier call for another size parameter
Wit_C2_SecondCallOtherX ==
  /\ pc[1] = "done"
  /\ Len(trace) = 2
  /\ trace[1][1] # trace[2][1]
  /\ HasAttr(self, "_dn")

\* C3: the truncation order computed by _compute_n_array(x) is
\* floor(x + 4*x^(1/3) + 2).
Thm_C3_TruncationOrderIsFloor ==
  /\ \A i \in 1..Len(trace) : IsFloorOrder(trace[i][2], trace[i][1])
  /\ trace # <<>> => self["_n_array"][Len(self["_n_array"])] = trace[Len(trace)][2]

\* the order array has been computed for a size parameter below 1
Wit_C3_FractionalX ==
  /\ trace # <<>>
  /\ LastX[1] < LastX[2]
  /\ trace[Len(trace)][2] = 4

\* C4: the truncation order is at least 1: the order array is never empty
\* and contains the dipole term n = 1.
Thm_C4_OrderAtLeastOne ==
  HasAttr(self, "_n_array") =>
    /\ Len(self["_n_array"]) >= 1
    /\ \E k \in 1..Len(self["_n_array"]) : self["_n_array"][k] = 1

\* the order array has been computed for the smallest size parameter
Wit_C4_SmallestX ==
  /\ HasAttr(self, "_n_array")
  /\ trace # <<>>
  /\ LastX = <<1, MaxRootDen>>

\* C5: the truncation order is non-decreasing in x, and at x = 1 it is at
\* least 4 and below 10.
Thm_C5_OrderMonotone ==
  /\ Len(trace) = 2 =>
       /\ RLeq(XVal(trace[1][1]), XVal(trace[2][1])) => trace[1][2] <= trace[2][2]
       /\ RLeq(XVal(trace[2][1]), XVal(trace[1][1])) => trace[2][2] <= trace[1][2]
  /\ \A i \in 1..Len(trace) :
       trace[i][1] = <<1, 1>> => (trace[i][2] >= 4 /\ trace[i][2] < 10)

\* the order has been computed for x = 1 and then for a larger x
Wit_C5_OneThenLarger ==
  /\ Len(trace) = 2
  /\ trace[1][1] = <<1, 1>>
  /\ trace[2][1] = <<MaxRootNum, 1>>
  /\ trace[1][2] < trace[2][2]

\* C6: after _compute_n_array(x) the order array is the sequence
\* 1, 2, ..., N_max(x): N_max(x) entries, from 1 to N_max(x), each entry
\* the one before plus 1.
Thm_C6_OrderArrayIsIota ==
  HasAttr(self, "_n_array") =>
    LET a == self["_n_array"]
    IN  /\ IsFloorOrder(Len(a), LastX)
        /\ a[1] = 1
        /\ a[Len(a)] = Len(a)
        /\ \A k \in 1..(Len(a) - 1) : a[k + 1] = a[k] + 1
        /\ \A j, k \in 1..Len(a) : j # k => a[j] # a[k]

\* the order array has been computed for the largest size parameter
Wit_C6_LargestX ==
  /\ HasAttr(self, "_n_array")
  /\ LastX = <<MaxRootNum, 1>>
  /\ Len(self["_n_array"]) > 10

\* a step that is the statement self._compute_n_array(x) of the caller
IsNArrayStep == pc[1] = "n_array" /\ pc'[1] = "jnx"

\* C7: computing the truncation order is free of side effects: it changes
\* no attribute of the driver.
CE_C7_NoAttributeChanges ==
  [][IsNArrayStep => self' = self]_vars

\* the building blocks of section 4.1 and 4.3 of the spec at order n
Spec_j(l, n, z) == spherical_jn(l, n, z)

Spec_h(l, n, z) == CAdd(spherical_jn(l, n, z), CMul(<<0, 1, 1>>, spherical_yn(l, n, z)))

Spec_zj_prime(l, n, z) == CSub(CMul(z, Spec_j(l, n - 1, z)), CMul(CInt(n), Spec_j(l, n, z)))

Spec_zh_prime(l, n, z) == CSub(CMul(z, Spec_h(l, n - 1, z)), CMul(CInt(n), Spec_h(l, n, z)))

\* numerators and denominators of a_n, b_n, c_n, d_n as the spec writes them
Spec_num(i, l, m, mu, x, n) ==
  LET mx == CMul(m, x)
  IN  CASE i = 1 -> CSub(CMul(CMul(CMul(m, m), Spec_j(l, n, mx)), Spec_zj_prime(l, n, x)),
                         CMul(CMul(mu, Spec_j(l, n, x)), Spec_zj_prime(l, n, mx)))
        [] i = 2 -> CSub(CMul(CMul(mu, Spec_j(l, n, mx)), Spec_zj_prime(l, n, x)),
                         CMul(Spec_j(l, n, x), Spec_zj_prime(l, n, mx)))
        [] i = 3 -> CSub(CMul(CMul(mu, Spec_j(l, n, x)), Spec_zh_prime(l, n, x)),
                         CMul(CMul(mu, Spec_h(l, n, x)), Spec_zj_prime(l, n, x)))
        [] i = 4 -> CSub(CMul(CMul(CMul(mu, m), Spec_j(l, n, x)), Spec_zh_prime(l, n, x)),
                         CMul(CMul(CMul(mu, m), Spec_h(l, n, x)), Spec_zj_prime(l, n, x)))

Spec_den(i, l, m, mu, x, n) ==
  LET mx == CMul(m, x)
  IN  IF i \in {1, 4}
      THEN CSub(CMul(CMul(CMul(m, m), Spec_j(l, n, mx)), Spec_zh_prime(l, n, x)),
                CMul(CMul(mu, Spec_h(l, n, x)), Spec_zj_prime(l, n, mx)))
      ELSE CSub(CMul(CMul(mu, Spec_j(l, n, mx)), Spec_zh_prime(l, n, x)),
                CMul(Spec_h(l, n, x), Spec_zj_prime(l, n, mx)))

\* e is the quotient num/den; a zero den has no finite quotient
IsQuotient(e, num, den) ==
  IF den = CZero THEN ~IsFinite(e) ELSE IsFinite(e) /\ e = CDiv(num, den)

\* C8: each of the four returned sequences has N_max(x) entries, and entry
\* n is the spec's quotient of the six building blocks at order n.
Thm_C8_CoefficientsAreSpecQuotients ==
  pc[1] = "done" =>
    \A i \in 1..4 :
      /\ IsFloorOrder(Len(ret[1][i]), arg[1].x)
      /\ \A n \in 1..Len(ret[1][i]) :
           IsQuotient(ret[1][i][n],
                      Spec_num(i, lib, arg[1].m, arg[1].mu, XVal(arg[1].x), n),
                      Spec_den(i, lib, arg[1].m, arg[1].mu, XVal(arg[1].x), n))

\* a call with a complex m and mu # 1 has returned finite coefficients
Wit_C8_ComplexIndex ==
  /\ pc[1] = "done"
  /\ arg[1].m = <<1, 1, 1>>
  /\ arg[1].mu = <<2, 0, 1>>
  /\ \E n \in 1..Len(ret[1][1]) : IsFinite(ret[1][1][n]) /\ ret[1][1][n] # CZero
  /\ \E n \in 1..Len(ret[1][3]) : IsFinite(ret[1][3][n]) /\ ret[1][3][n] # CZero

\* C9: the solver never returns a coefficient set with an infinite or NaN
\* entry: a zero denominator ends the call in a DegenerateDenominatorError.
CE_C9_NoNonFiniteCoefficient ==
  pc[1] = "done" =>
    \A i \in 1..4 : \A n \in 1..Len(ret[1][i]) : IsFinite(ret[1][i][n])

IsPositive(v) == IsFinite(v) /\ v[1] > 0

\* C10: a driver is never configured with a radius <= 0 or a wavelength
\* <= 0, and an evaluation of _compute_s_jn at z = 0 ends in a DomainError.
CE_C10_InvalidInputRejected ==
  /\ (HasAttr(self, "_size_factor_array") /\ exc = "none") =>
       /\ IsPositive(self["radius"])
       /\ \A k \in 1..Len(self["wavelength_array"]) : IsPositive(self["wavelength_array"][k])
  /\ (ev.outcome # "none" /\ ev.z = CZero) => ev.outcome = "DomainError"

\* C15: the sequences a call has returned are not changed by a later call:
\* their contents stay as they were at the return, and when the later call
\* returns, none of the four attributes is bound to one of them any more.
Thm_C15_ReturnedSequencesOwned ==
  /\ kept.list = kept.orig
  /\ pc[1] \in {"return", "done"} => kept.alias = {}

\* a later call has returned a list with other contents than the list held
\* from the call before
Wit_C15_LaterCallReturned ==
  /\ pc[1] = "done"
  /\ kept.list # <<>>
  /\ kept.list[1] # ret[1][1]
  /\ kept.list[2] # ret[1][2]

\* the size parameter of grid index i is a positive finite number
Computable(i) ==
  LET x == self["_size_factor_array"][i] IN IsFinite(x) /\ x[1] > 0

\* C11: after compute_spectrum the absorption efficiency of every wavelength
\* is the extinction efficiency minus the scattering efficiency.
CE_C11_AbsorptionIsDifference ==
  res.op = "compute_spectrum" =>
    /\ HasAttr(self, "q_abs") /\ HasAttr(self, "q_ext") /\ HasAttr(self, "q_scat")
    /\ Len(self["q_abs"]) = Len(self["wavelength_array"])
    /\ \A i \in 1..Len(self["q_abs"]) :
         self["q_abs"][i] = CSub(self["q_ext"][i], self["q_scat"][i])

\* |z|^2 and Re(z) of a complex z, as reals
AbsSq(z) == Norm(z[1] * z[1] + z[2] * z[2], 0, z[3] * z[3])

RePart(z) == Norm(z[1], 0, z[3])

\* sum over n = 1..k, ascending, of (2n+1) * term(n)
RECURSIVE SeriesSum(_, _)
SeriesSum(terms, k) ==
  IF k = 0 THEN CZero
  ELSE CAdd(SeriesSum(terms, k - 1), CMul(CInt(2 * k + 1), terms[k]))

\* the efficiencies of section 4.4 of the spec
Spec_q_sca(l, m, mu, r) ==
  LET c == mie_coeffients_fresh(l, m, mu, r)
      terms == [n \in 1..Len(c[1]) |-> CAdd(AbsSq(c[1][n]), AbsSq(c[2][n]))]
  IN  CMul(CDiv(CInt(2), CMul(XVal(r), XVal(r))), SeriesSum(terms, Len(terms)))

Spec_q_ext(l, m, mu, r) ==
  LET c == mie_coeffients_fresh(l, m, mu, r)
      terms == [n \in 1..Len(c[1]) |-> RePart(CAdd(c[1][n], c[2][n]))]
  IN  CMul(CDiv(CInt(2), CMul(XVal(r), XVal(r))), SeriesSum(terms, Len(terms)))

\* C12: _compute_q_scattering and _compute_q_extinction return the real
\* numbers (2/x^2) * sum (2n+1)(|a_n|^2 + |b_n|^2) and
\* (2/x^2) * sum (2n+1) Re(a_n + b_n), summed over all orders 1..N_max(x).
CE_C12_EfficienciesAreSeries ==
  /\ res.op = "_compute_q_scattering" =>
       /\ res.type = "float"
       /\ res.value = Spec_q_sca(lib, res.arg.m, res.arg.mu, res.arg.x)
  /\ res.op = "_compute_q_extinction" =>
       /\ res.type = "float"
       /\ res.value = Spec_q_ext(lib, res.arg.m, res.arg.mu, res.arg.x)

SpectrumNames == {"q_ext", "q_scat", "q_abs", "c_ext", "c_scat", "c_abs"}

\* C13: after compute_spectrum the driver holds the six sequences, each
\* with one entry per wavelength of the grid, and each cross section is its
\* efficiency times pi * radius^2 (the factor of pi is kept apart).
CE_C13_SixAlignedSequences ==
  res.op = "compute_spectrum" =>
    /\ \A a \in SpectrumNames :
         HasAttr(self, a) /\ Len(self[a]) = Len(self["wavelength_array"])
    /\ \A i \in 1..Len(self["wavelength_array"]) :
         LET r2 == CMul(self["radius"], self["radius"])
         IN  /\ self["c_ext"][i] = CMul(self["q_ext"][i], r2)
             /\ self["c_scat"][i] = CMul(self["q_scat"][i], r2)
             /\ self["c_abs"][i] = CMul(self["q_abs"][i], r2)

\* C14: after compute_spectrum on a grid with a wavelength whose
\* computation fails, the driver holds the results of the other wavelengths
\* and a list of the failed ones.
CE_C14_FailuresCollected ==
  (res.op = "compute_spectrum"
     /\ (\E i \in 1..Len(self["wavelength_array"]) : ~Computable(i))
     /\ \E j \in 1..Len(self["wavelength_array"]) : Computable(j)) =>
    /\ HasAttr(self, "failures") /\ HasAttr(self, "q_ext")
    /\ \A i \in 1..Len(self["wavelength_array"]) :
         IF Computable(i)
         THEN i \notin self["failures"] /\ IsFinite(self["q_ext"][i])
         ELSE i \in self["failures"]

\* y < z for reals
RLt(y, z) == y[1] * z[3] < z[1] * y[3]

\* C16: the grid of an accepted configuration has at least one element, its
\* elements are positive and strictly increasing, and number_of_wavelengths
\* is its length.
CE_C16_GridStrictlyIncreasing ==
  (HasAttr(self, "wavelength_array") /\ exc = "none") =>
    LET wl == self["wavelength_array"]
    IN  /\ Len(wl) >= 1
        /\ self["number_of_wavelengths"] = Len(wl)
        /\ \A k \in 1..Len(wl) : IsPositive(wl[k])
        /\ \A k \in 1..(Len(wl) - 1) : RLt(wl[k], wl[k + 1])

\* C17: on a driver with a positive radius and positive wavelengths the
\* stored size factor of every grid index is 2*pi*radius/wavelength (here in
\* units of pi) and positive, and the stored relative index is the sphere
\* index over the medium index.
CE_C17_DerivedValuesCurrent ==
  (/\ HasAttr(self, "_size_factor_array")
   /\ IsPositive(self["radius"])
   /\ \A k \in 1..Len(self["wavelength_array"]) :
        IsPositive(self["wavelength_array"][k])) =>
    /\ Len(self["_size_factor_array"]) = Len(self["wavelength_array"])
    /\ Len(self["_relative_refractive_index_array"]) = Len(self["wavelength_array"])
    /\ \A i \in 1..Len(self["wavelength_array"]) :
         /\ self["_size_factor_array"][i]
              = CDiv(CMul(CInt(2), self["radius"]), self["wavelength_array"][i])
         /\ IsPositive(self["_size_factor_array"][i])
         /\ self["_relative_refractive_index_array"][i]
              = CDiv(self["sphere_refractive_index_array"][i],
                     self["_medium_refractive_index"])

\* C18: a configuration without a radius gives the radius 100e-9 m (100 nm),
\* one without a wavelength range gives 10 equally spaced wavelengths from
\* 400 nm to 800 nm; a supplied radius is the radius, a supplied range
\* (start, stop, count) that is accepted gives count wavelengths from start
\* to stop, and neither changes what the other key or its default gives.
Thm_C18_ConfigurationDefaults ==
  LET wl == self["wavelength_array"]
      lamlist == cfg["wavelength_list"]
  IN  /\ IF "radius" \in DOMAIN cfg
         THEN self["radius"] = cfg["radius"]
         ELSE self["radius"] = <<100, 0, 1>>
      /\ exc = "none" =>
           IF "wavelength_list" \in DOMAIN cfg
           THEN /\ Len(wl) = IntOf(lamlist[3])
                /\ self["number_of_wavelengths"] = IntOf(lamlist[3])
                /\ Len(wl) >= 1 => wl[1] = lamlist[1]
                /\ Len(wl) >= 2 => wl[Len(wl)] = lamlist[2]
           ELSE /\ Len(wl) = 10
                /\ self["number_of_wavelengths"] = 10
                /\ wl[1] = <<400, 0, 1>>
                /\ wl[10] = <<800, 0, 1>>
                /\ \A k \in 1..8 :
                     CSub(wl[k + 1], wl[k]) = CSub(wl[k + 2], wl[k + 1])

\* a driver configured with a radius and no range: the radius is the
\* supplied one and the grid is the default one
Wit_C18_RadiusOnly ==
  /\ cfg = [radius |-> <<50, 0, 1>>]
  /\ exc = "none"
  /\ self["radius"] = <<50, 0, 1>>
  /\ Len(self["wavelength_array"]) = 10
  /\ self["wavelength_array"][10] = <<800, 0, 1>>

\* C19: the relative index of every wavelength is formed from the sphere
\* index the caller supplied in the configuration.
CE_C19_SphereIndexSupplied ==
  ("sphere_refractive_index" \in DOMAIN cfg /\ exc = "none") =>
    \A i \in 1..Len(self["wavelength_array"]) :
      /\ self["sphere_refractive_index_array"][i] = cfg["sphere_refractive_index"]
      /\ self["_relative_refractive_index_array"][i]
           = CDiv(cfg["sphere_refractive_index"], self["_medium_refractive_index"])

\* np.isclose(a, b, 1e-3): |a - b| <= 1e-8 + 1e-3 * |b|, in units of 1e-7
IsClose(a, b) == Abs(a - b) <= (100 + Abs(b)) \div 1000

Thm_C21_NoNegativeOrder ==
  \A t \in Threads :
    pc[t] \in {"jnx", "jnmx", "hnx", "xjnxp", "mxjnmxp", "xhnxp"} =>
      /\ \A k \in 1..Len(self["_n_array"]) : self["_n_array"][k] >= 1
      /\ \A n \in orders_requested(pc[t], self["_n_array"]) : n >= 0

\* the solver is about to evaluate a derivative, which asks for order 0
Wit_C21_DerivativeAtOrderZero ==
  /\ pc[1] = "xhnxp"
  /\ 0 \in orders_requested(pc[1], self["_n_array"])
  /\ Len(self["_n_array"]) >= 2

\* C26: after the constructor and after every parse_input, whatever the
\* configuration, the wavelength array, the two index arrays and the size
\* factor array each have number_of_wavelengths entries.
Thm_C26_ArraysHaveGridLength ==
  HasAttr(self, "_size_factor_array") =>
    \A a \in {"wavelength_array", "sphere_refractive_index_array",
              "_relative_refractive_index_array", "_size_factor_array"} :
      Len(self[a]) = self["number_of_wavelengths"]

\* a configuration with a count that is not an integer was accepted
Wit_C26_NonIntegralCount ==
  /\ "wavelength_list" \in DOMAIN cfg
  /\ cfg["wavelength_list"][3][3] = 2
  /\ exc = "none"
  /\ self["number_of_wavelengths"] = 2
  /\ Len(self["wavelength_array"]) = 2
  /\ Len(self["_size_factor_array"]) = 2

\* y <= z <= w for scalars with the same power of pi
QBetween(y, z, w) ==
  /\ y.pi = z.pi /\ z.pi = w.pi
  /\ RLeq(y.v, z.v) /\ RLeq(z.v, w.v)

\* the integral of the useful spectrum over the grid points whose wavelength
\* is <= the bandgap
Spec_stpv(te, wl, bg) ==
  LET n == Cardinality({k \in 1..Len(wl) : RLeq(wl[k], bg)})
  IN  TimesPi(Q(trapz(Slice(useful_spectrum(te, wl, bg), n), Slice(wl, n))))

\* C22: the stpv power density is pi times the integral of
\* thermal_emission * wavelength / lambda_bandgap over the grid points from
\* the first wavelength up to the bandgap: every point whose wavelength is
\* <= lambda_bandgap is in the integral and no point above it.
CE_C22_IntegralUpToBandgap ==
  HasAttr(therml, "stpv_power_density") =>
    therml["stpv_power_density"]
      = Spec_stpv(therml["thermal_emission_array"], grid, therml["lambda_bandgap"])

\* C23: every component of the stpv power density gradient is the integral
\* over the index range that _compute_stpv_power_density and the _rho_prime
\* of _compute_stpv_spectral_efficiency_gradient use, so it is the stpv
\* power density of the emission gradient.
CE_C23_GradientUsesSameRange ==
  HasAttr(therml, "stpv_power_density_gradient") =>
    \A i \in 1..Len(therml["stpv_power_density_gradient"]) :
      LET tegi == therml["thermal_emission_gradient_array"][i]
      IN  /\ therml["stpv_power_density_gradient"][i]
               = stpv_power(tegi, grid, therml["lambda_bandgap"])
          /\ therml["stpv_power_density_gradient"][i]
               = rho_prime(tegi, grid, therml["lambda_bandgap"])

\* C24: a _compute_power_density call that fails on a spectrum that was not
\* assigned leaves every attribute of the object as it was.
CE_C24_FailedCallChangesNothing ==
  [][(ComputePowerDensity /\ exc' = "AttributeError") => therml' = therml]_vars

====
